---- MODULE Spec2Model ----
(***************************************************************************)
(* A model of geotagger's main.py: the nearest-track-point matcher         *)
(* (nearest_gpx_point, memoized with functools.cache), the decimal-degree  *)
(* to degrees/minutes/seconds conversion (to_degrees_minutes_seconds), the *)
(* GPS record (build_gps_dict) and the batch driver (main).                *)
(*                                                                         *)
(* Three specifications share the variables:                               *)
(*   SpecMatch  calls nearest_gpx_point on one series with many queries;   *)
(*   SpecDms    applies to_degrees_minutes_seconds to one angle;           *)
(*   Spec       runs main from the parsed arguments to its end.            *)
(*                                                                         *)
(* Indices are Python's: 0-based, so element i of a tuple t is t[i + 1].   *)
(* A call either returns or raises: [raised |-> FALSE, value |-> v] or     *)
(* [raised |-> TRUE, error |-> "NameOfException"].                         *)
(***************************************************************************)
EXTENDS Integers, Sequences, FiniteSets, TLC

VARIABLES
    \* ---- nearest_gpx_point and its functools.cache (all specifications)
    times,        \* the tuple of track timestamps, ascending
    cache,        \* functools.cache of nearest_gpx_point: key -> returned index
    searches,     \* how many times the body of nearest_gpx_point has run
    log,          \* the calls of nearest_gpx_point so far, oldest first (history)
    \* ---- to_degrees_minutes_seconds (SpecDms)
    dec,          \* the decimal-degree argument
    lon,          \* the longitude flag
    dms,          \* the outcome of the call, or the not-yet-called marker
    \* ---- main (Spec)
    pc,           \* where main is: "args", "pattern", "images", "gpx", "loop", "done", "crashed"
    args,         \* the parsed command line
    fs,           \* the file system: the track log and the image files
    offset,       \* the camera clock offset in seconds
    pattern,      \* the glob pattern get_pattern returned
    images,       \* the candidates main still has to iterate over
    coords,       \* the list of (ele, lon, lat) samples, parallel to times
    error,        \* the exception that ended main, "" while none
    trace         \* what main has touched so far (history)

vars == <<times, cache, searches, log, dec, lon, dms,
          pc, args, fs, offset, pattern, images, coords, error, trace>>

matchVars == <<times, cache, searches, log>>
dmsVars   == <<dec, lon, dms>>
mainVars  == <<pc, args, fs, offset, pattern, images, coords, error, trace>>

(***************************************************************************)
(* Outcomes of a call.                                                     *)
(***************************************************************************)
Return(v) == [raised |-> FALSE, value |-> v]
Raise(e)  == [raised |-> TRUE, error |-> e]

(***************************************************************************)
(* Bounds of the model.                                                    *)
(***************************************************************************)
MaxN      == 3    \* longest series of the matcher's harness
MaxCalls  == 3    \* calls of nearest_gpx_point per behaviour of SpecMatch
MaxImages == 2    \* image files per run of main
SubUnits  == 4    \* resolution of an angle: SubUnits steps per 1/PRECISION arc-second

PRECISION == 10000

(***************************************************************************)
(* Python and numpy primitives used by nearest_gpx_point.                  *)
(***************************************************************************)
At(a, i) == a[i + 1]

RECURSIVE Sum(_)
Sum(a) == IF a = <<>> THEN 0 ELSE Head(a) + Sum(Tail(a))

\* np.searchsorted(a, v), side "left": the first position whose element is >= v
searchsorted(a, v) ==
    CHOOSE i \in 0..Len(a) :
        /\ \A k \in 1..i : a[k] < v
        /\ i < Len(a) => a[i + 1] >= v

\* a[start:stop]: a negative bound counts from the end, both are clamped to 0..len
SliceBound(n, x) == IF x < 0 THEN (IF x + n < 0 THEN 0 ELSE x + n)
                    ELSE (IF x > n THEN n ELSE x)

Slice(a, start, stop) ==
    LET lo == SliceBound(Len(a), start)
        hi == SliceBound(Len(a), stop)
    IN  IF lo >= hi THEN <<>> ELSE SubSeq(a, lo + 1, hi)

\* v >= a.mean(): the mean of an empty array is nan, and v >= nan is False
GeMean(v, a) == a # <<>> /\ v * Len(a) >= Sum(a)

\* the same with > (a tie goes to the earlier sample)
GtMean(v, a) == a # <<>> /\ v * Len(a) > Sum(a)

(***************************************************************************)
(* nearest_gpx_point, the body under @cache.                               *)
(***************************************************************************)
nearest_gpx_point_tie_earlier(ts, photo_time) ==
    LET i == searchsorted(ts, photo_time)
    IN  IF i >= Len(ts) THEN Raise("IndexError")
        ELSE IF photo_time = At(ts, i) \/ GtMean(photo_time, Slice(ts, i - 1, i + 1))
             THEN Return(i)
             ELSE Return(i - 1)

nearest_gpx_point(ts, photo_time) ==
    LET i == searchsorted(ts, photo_time)
    IN  IF i >= Len(ts) THEN Raise("IndexError")                \* times[i]
        ELSE IF photo_time = At(ts, i) \/ GeMean(photo_time, Slice(ts, i - 1, i + 1))
             THEN Return(i)
             ELSE Return(i - 1)

(***************************************************************************)
(* functools.cache around nearest_gpx_point: the key is the tuple of the   *)
(* arguments; a returned value is stored, a raised exception is not.       *)
(***************************************************************************)
EmptyCache == [k \in {} |-> 0]

CacheKeyTimesOnly(ts, photo_time) == <<ts, 0>>

CacheKey(ts, photo_time) == <<ts, photo_time>>

\* the outcome of the call nearest_gpx_point(ts, photo_time) through the cache
CachedOutcome(ts, photo_time) ==
    LET key == CacheKey(ts, photo_time)
    IN  IF key \in DOMAIN cache THEN Return(cache[key])
        ELSE nearest_gpx_point(ts, photo_time)

\* the call's effect on the cache, the search counter and the call history
CachedCall(ts, photo_time) ==
    LET key == CacheKey(ts, photo_time)
        hit == key \in DOMAIN cache
        out == CachedOutcome(ts, photo_time)
    IN  /\ searches' = IF hit THEN searches ELSE searches + 1
        /\ cache' = IF hit \/ out.raised THEN cache
                    ELSE [k \in DOMAIN cache \cup {key} |->
                             IF k = key THEN out.value ELSE cache[k]]
        /\ log' = Append(log, [ts |-> ts, photo_time |-> photo_time, outcome |-> out,
                               before |-> searches, after |-> searches'])

(***************************************************************************)
(* SpecMatch: one series, any sequence of queries.                         *)
(***************************************************************************)
TimeVals  == {100, 200, 300}
QueryVals == {50, 100, 140, 150, 200, 250, 260, 300, 350}

IsAscending(a) == \A k \in 1..(Len(a) - 1) : a[k] <= a[k + 1]

Series(n) == {a \in UNION {[1..m -> TimeVals] : m \in 0..n} : IsAscending(a)}

(***************************************************************************)
(* Angles.  A decimal-degree value is sign * (whole + frac / FracScale)    *)
(* with 0 <= frac < FracScale.  FracScale is 3600 * SecUnit, so frac       *)
(* counts steps of 1 / SecUnit arc-second and SecUnit = PRECISION *        *)
(* SubUnits: an angle is SubUnits times finer than what the seconds field  *)
(* can hold, which makes the truncation of that field visible.             *)
(***************************************************************************)
SecUnit   == PRECISION * SubUnits
FracScale == 3600 * SecUnit

Angle(sign, whole, frac) == [sign |-> sign, whole |-> whole, frac |-> frac]

\* dec < 0 (false for 0.0 and for -0.0)
Lt0(d) == d.sign = -1 /\ (d.whole # 0 \/ d.frac # 0)

\* abs(dec)
Abs(d) == [d EXCEPT !.sign = 1]

\* int(floor(x)) of a non-negative x
Floor(x) == x.whole

\* x % m for a non-negative x and an integer m: ZeroDivisionError when m = 0
Mod(x, m) == IF m = 0 THEN Raise("ZeroDivisionError")
             ELSE Return([x EXCEPT !.whole = x.whole % m])

\* x * 3600 of a non-negative x in degrees: whole seconds and steps of 1 / SecUnit
Times3600(x) == [whole |-> x.whole * 3600 + x.frac \div SecUnit, frac |-> x.frac % SecUnit]

(***************************************************************************)
(* to_degrees_minutes_seconds                                              *)
(***************************************************************************)
to_degrees_minutes_seconds(d, isLon) ==
    LET ref     == IF Lt0(d) /\ isLon THEN "W"
                   ELSE IF Lt0(d) /\ ~isLon THEN "S"
                   ELSE IF isLon THEN "E"
                   ELSE "N"
        a       == Abs(d)
        degrees == Floor(a)
        rem     == Mod(a, degrees)                       \* dec % degrees
        secs    == Times3600(rem.value)                  \* (dec % degrees) * 3600
        minutes == secs.whole \div 60                    \* int(... // 60)
        seconds == (secs.whole % 60) * PRECISION         \* int(floor(... % 60 * PRECISION))
                   + (secs.frac * PRECISION) \div SecUnit
    IN  IF rem.raised THEN rem
        ELSE Return(<<degrees, minutes, seconds, ref>>)

(***************************************************************************)
(* SpecDms: one angle in its valid range, converted once.                  *)
(***************************************************************************)
WholeVals == {0, 1, 2, 45, 89, 90, 120, 179, 180}
FracVals  == {0, 1, SubUnits, SecUnit, 60 * SecUnit, FracScale \div 2, FracScale - 1}

\* longitude in [-180, 180], latitude in [-90, 90]
InRange(d, isLon) ==
    LET top == IF isLon THEN 180 ELSE 90
    IN  d.whole < top \/ (d.whole = top /\ d.frac = 0)

Angles == {Angle(s, w, f) : s \in {-1, 1}, w \in WholeVals, f \in FracVals}

NotCalled == [called |-> FALSE]

(***************************************************************************)
(* build_gps_dict: the piexif GPS block, keyed by tag name.  elev is None  *)
(* when the track point has no "ele" property, and int(None) raises.       *)
(***************************************************************************)
None == [none |-> TRUE]
Metres(tenths) == [none |-> FALSE, tenths |-> tenths]

\* int(elev): truncation toward zero
IntOf(elev) == IF elev.tenths >= 0 THEN elev.tenths \div 10 ELSE -((-elev.tenths) \div 10)

GpsKeys == {"GPSLongitude", "GPSLongitudeRef", "GPSLatitude", "GPSLatitudeRef",
            "GPSAltitude", "GPSAltitudeRef"}

build_gps_dict(elev, lon_dms, lat_dms) ==
    IF elev.none THEN Raise("TypeError")
    ELSE Return([GPSLongitude    |-> <<<<lon_dms[1], 1>>, <<lon_dms[2], 1>>, <<lon_dms[3], PRECISION>>>>,
                 GPSLongitudeRef |-> lon_dms[4],
                 GPSLatitude     |-> <<<<lat_dms[1], 1>>, <<lat_dms[2], 1>>, <<lat_dms[3], PRECISION>>>>,
                 GPSLatitudeRef  |-> lat_dms[4],
                 GPSAltitude     |-> <<<<IntOf(elev), 1>>>>,
                 GPSAltitudeRef  |-> 0])

(***************************************************************************)
(* get_pattern                                                             *)
(***************************************************************************)
ExtVals == {"jpg", "JPEG", "webp", "TIF", "gif"}

\* ext.lower()
Lower(ext) == CASE ext = "jpg"  -> "jpg"
                [] ext = "JPEG" -> "jpeg"
                [] ext = "webp" -> "webp"
                [] ext = "TIF"  -> "tif"
                [] ext = "gif"  -> "gif"

get_pattern_any(ext) ==
    IF Lower(ext) \in {"jpg", "jpeg"} THEN Return("*.[jpJP]*")
    ELSE IF Lower(ext) = "webp" THEN Return("*.[webWEB]*")
    ELSE IF Lower(ext) \in {"tif", "tiff"} THEN Return("*.[tifTIF]*")
    ELSE Return("*.*")

get_pattern(ext) ==
    IF Lower(ext) \in {"jpg", "jpeg"} THEN Return("*.[jpJP]*")
    ELSE IF Lower(ext) = "webp" THEN Return("*.[webWEB]*")
    ELSE IF Lower(ext) \in {"tif", "tiff"} THEN Return("*.[tifTIF]*")
    ELSE Raise("ValueError")

\* Path.glob: the characters the pattern's bracket admits right after the dot
CharClass(pat) == CASE pat = "*.[jpJP]*"   -> {"j", "p", "J", "P"}
                    [] pat = "*.[webWEB]*" -> {"w", "e", "b", "W", "E", "B"}
                    [] pat = "*.[tifTIF]*" -> {"t", "i", "f", "T", "I", "F"}
                    [] OTHER               -> {"j", "p", "t", "J", "P", "T"}   \* "*.*"

Matches(file, pat) == file.suffix[1] \in CharClass(pat)

(***************************************************************************)
(* The inputs of a run: the track log, the image files, the command line.  *)
(***************************************************************************)
Point(time, ele, lo, la) == [time |-> time, ele |-> ele, lon |-> lo, lat |-> la]

Half == FracScale \div 2

\* the track_points layers the model draws from (time strings well-formed, ascending)
Tracks == {
    <<>>,
    << Point(100, Metres(105), Angle(1, 1, 0),       Angle(1, 2, 0)),
       Point(200, Metres(200), Angle(-1, 120, Half), Angle(1, 45, Half)),
       Point(300, Metres(309), Angle(1, 1, Half),    Angle(-1, 33, 1)) >>,
    << Point(200, Metres(20),  Angle(-1, 0, Half),   Angle(1, 51, Half)),
       Point(300, None,        Angle(1, 2, 0),       Angle(1, 2, 0)) >> }

GpxFiles ==
    {[exists |-> FALSE, layers |-> {}, points |-> <<>>],
     [exists |-> TRUE, layers |-> {"waypoints", "routes"}, points |-> <<>>]}
    \cup {[exists |-> TRUE, layers |-> {"waypoints", "track_points"}, points |-> t] : t \in Tracks}

\* DateTimeOriginal bytes: "%Y:%m:%d %H:%M:%S" text of the wall-clock second, or not
Stamp(wall) == [wellformed |-> TRUE, wall |-> wall]
Garbage     == [wellformed |-> FALSE]

NoTags   == [k \in {} |-> 0]
OldGps   == [GPSTimeStamp |-> <<<<10, 1>>, <<0, 1>>, <<0, 1>>>>,
             GPSLatitude  |-> <<<<9, 1>>, <<9, 1>>, <<9, 1>>>>]

Exif(zeroth, exifIfd, gps) == [zeroth |-> zeroth, Exif |-> exifIfd, GPS |-> gps]

ImageFile(name, suffix, readable, writable, exif) ==
    [name |-> name, suffix |-> suffix, readable |-> readable, writable |-> writable,
     exif |-> exif]

Jpg == <<"j", "p", "g">>

ImageFiles == {
    ImageFile("a", Jpg, TRUE, TRUE,
              Exif([Make |-> "A"], [DateTimeOriginal |-> Stamp(140)], NoTags)),
    ImageFile("b", <<"J", "P", "G">>, TRUE, TRUE,
              Exif([Make |-> "B"], [DateTimeOriginal |-> Stamp(260)], OldGps)),
    ImageFile("c", <<"p", "n", "g">>, FALSE, TRUE,
              Exif(NoTags, NoTags, NoTags)),
    ImageFile("d", Jpg, TRUE, TRUE,
              Exif([Make |-> "D"], NoTags, OldGps)),
    ImageFile("e", <<"t", "i", "f">>, TRUE, TRUE,
              Exif([Make |-> "E"], [DateTimeOriginal |-> Garbage], NoTags)),
    ImageFile("f", Jpg, TRUE, FALSE,
              Exif([Make |-> "F"], [DateTimeOriginal |-> Stamp(150)], OldGps)) }

\* directory listings: files with distinct names, in the order glob yields them
Listings(n) == {l \in UNION {[1..m -> ImageFiles] : m \in 0..n} :
                   \A i, j \in 1..Len(l) : i # j => l[i].name # l[j].name}

\* (--hours, --minutes, --seconds): a mutually exclusive group, default 0
OffsetArgs == {<<0, 0, 0>>, <<1, 0, 0>>, <<0, 1, 0>>, <<0, 0, -10>>}

\* the local zone's UTC offset in seconds, which strptime(...).astimezone(UTC) removes
TzVals == {0, 60}

(***************************************************************************)
(* parse_gpx: (times, coords) of the track_points layer, or two empty      *)
(* collections when the file or the layer is missing.                      *)
(***************************************************************************)
parse_gpx(gpx) ==
    IF ~gpx.exists THEN <<<<>>, <<>>>>
    ELSE IF "track_points" \notin gpx.layers THEN <<<<>>, <<>>>>
    ELSE << [i \in 1..Len(gpx.points) |-> gpx.points[i].time],
            [i \in 1..Len(gpx.points) |->
                 <<gpx.points[i].ele, gpx.points[i].lon, gpx.points[i].lat>>] >>

(***************************************************************************)
(* The steps of one iteration of main's loop, each an outcome.             *)
(***************************************************************************)
\* piexif.load(str(im))
Load(file) == IF file.readable THEN Return(file.exif) ELSE Raise("InvalidImageDataError")

\* datetime.strptime(exif["Exif"][DateTimeOriginal].decode(), "%Y:%m:%d %H:%M:%S")
Strptime(exif) ==
    IF "DateTimeOriginal" \notin DOMAIN exif.Exif THEN Raise("KeyError")
    ELSE IF ~exif.Exif.DateTimeOriginal.wellformed THEN Raise("ValueError")
    ELSE Return(exif.Exif.DateTimeOriginal.wall)

\* (naive.astimezone(UTC) + timedelta(seconds=offset)).timestamp()
TakenAt(wall, tz, off) == (wall - tz) + off

\* l[i] of a Python list: a negative index counts from the end
PyIndex(l, i) ==
    IF 0 <= i /\ i < Len(l) THEN Return(l[i + 1])
    ELSE IF i < 0 /\ -i <= Len(l) THEN Return(l[Len(l) + i + 1])
    ELSE Raise("IndexError")

\* lines 207-210: the GPS block for the sample at index
Encode(cs, index) ==
    LET sample  == PyIndex(cs, index)
        lon_dms == to_degrees_minutes_seconds(sample.value[2], TRUE)
        lat_dms == to_degrees_minutes_seconds(sample.value[3], FALSE)
    IN  IF sample.raised THEN sample
        ELSE IF lon_dms.raised THEN lon_dms
        ELSE IF lat_dms.raised THEN lat_dms
        ELSE build_gps_dict(sample.value[1], lon_dms.value, lat_dms.value)

\* tags of the old block survive unless the new record has them too
MergeGps(exif, gps) == [exif EXCEPT !.GPS = gps @@ exif.GPS]

\* exif["GPS"] = build_gps_dict(...)
SetGps(exif, gps) == [exif EXCEPT !.GPS = gps]

\* piexif.insert(piexif.dump(exif), str(im))
Insert(file, exif) == IF file.writable THEN Return([file EXCEPT !.exif = exif])
                      ELSE Raise("PermissionError")

Failed(step, out) == [raised |-> TRUE, error |-> out.error, step |-> step]

\* lines 199-212 for one file, given the matcher's outcome when it is reached
Tag(file, matched) ==
    LET exif     == Load(file)
        wall     == Strptime(exif.value)
        gps      == Encode(coords, matched.value)
        inserted == Insert(file, SetGps(exif.value, gps.value))
    IN  IF exif.raised THEN Failed("read", exif)
        ELSE IF wall.raised THEN Failed("time", wall)
        ELSE IF matched.raised THEN Failed("match", matched)
        ELSE IF gps.raised THEN Failed("encode", gps)
        ELSE IF inserted.raised THEN Failed("write", inserted)
        ELSE inserted

(***************************************************************************)
(* main                                                                    *)
(***************************************************************************)
\* lines 181-188
ParseArgs ==
    /\ pc = "args"
    /\ offset' = IF args.hours # 0 THEN args.hours * 3600
                 ELSE IF args.minutes # 0 THEN args.minutes * 60
                 ELSE args.seconds
    /\ pc' = "pattern"
    /\ UNCHANGED <<args, fs, pattern, images, coords, error, trace>>
    /\ UNCHANGED <<matchVars, dmsVars>>

\* line 189
GetPattern ==
    /\ pc = "pattern"
    /\ LET r == get_pattern(args.ext)
       IN  IF r.raised
           THEN /\ pc' = "crashed"
                /\ error' = r.error
                /\ pattern' = pattern
           ELSE /\ pc' = "images"
                /\ error' = error
                /\ pattern' = r.value
    /\ UNCHANGED <<args, fs, offset, images, coords, trace>>
    /\ UNCHANGED <<matchVars, dmsVars>>

\* lines 190-195: the candidates, as indices into the listing (glob is lazy, but
\* the listing does not change between line 195 and the loop)
Candidates ==
    IF fs.target = "file" THEN <<1>>
    ELSE IF fs.target = "dir"
    THEN LET hits == {i \in 1..Len(fs.files) : Matches(fs.files[i], pattern)}
             RECURSIVE Asc(_)
             Asc(set) == IF set = {} THEN <<>>
                         ELSE LET m == CHOOSE x \in set : \A y \in set : x <= y
                              IN  <<m>> \o Asc(set \ {m})
         IN  Asc(hits)
    ELSE <<>>

ResolveImages ==
    /\ pc = "images"
    /\ images' = Candidates
    /\ trace' = [trace EXCEPT !.statted = TRUE, !.candidates = Candidates]
    /\ pc' = "gpx"
    /\ UNCHANGED <<args, fs, offset, pattern, coords, error>>
    /\ UNCHANGED <<cache, searches, log, dmsVars>>
    /\ times' = times

\* line 196
ParseGpx ==
    /\ pc = "gpx"
    /\ times' = parse_gpx(fs.gpx)[1]
    /\ coords' = parse_gpx(fs.gpx)[2]
    /\ trace' = [trace EXCEPT !.gpxOpened = TRUE]
    /\ pc' = "loop"
    /\ UNCHANGED <<args, fs, offset, pattern, images, error>>
    /\ UNCHANGED <<cache, searches, log, dmsVars>>

\* lines 197-212, one iteration; an exception leaves main
ProcessImage ==
    /\ pc = "loop"
    /\ images # <<>>
    /\ LET im      == Head(images)
           file    == fs.files[im]
           exif    == Load(file)
           wall    == Strptime(exif.value)
           reached == ~exif.raised /\ ~wall.raised
           taken   == TakenAt(wall.value, fs.tz, offset)
           matched == CachedOutcome(times, taken)
           out     == Tag(file, matched)
       IN  /\ IF reached THEN CachedCall(times, taken)
              ELSE UNCHANGED <<cache, searches, log>>
           /\ IF out.raised
              THEN /\ pc' = "crashed"
                   /\ error' = out.error
                   /\ fs' = fs
                   /\ images' = images
                   /\ trace' = [trace EXCEPT !.loaded = @ \cup {im}, !.failed = out.step]
              ELSE /\ pc' = pc
                   /\ error' = error
                   /\ fs' = [fs EXCEPT !.files[im] = out.value]
                   /\ images' = Tail(images)
                   /\ trace' = [trace EXCEPT !.loaded = @ \cup {im},
                                             !.written = @ \cup {im}]
    /\ UNCHANGED <<args, offset, pattern, coords, times, dmsVars>>

\* the loop is exhausted and main returns
Finish ==
    /\ pc = "loop"
    /\ images = <<>>
    /\ pc' = "done"
    /\ UNCHANGED <<args, fs, offset, pattern, images, coords, error, trace>>
    /\ UNCHANGED <<matchVars, dmsVars>>

IdleMatch == times = <<>> /\ cache = EmptyCache /\ searches = 0 /\ log = <<>>
IdleDms   == dec = Angle(1, 1, 0) /\ lon = FALSE /\ dms = NotCalled
IdleMain  ==
    /\ pc = "idle"
    /\ args = [ext |-> "jpg", hours |-> 0, minutes |-> 0, seconds |-> 0]
    /\ fs = [gpx |-> [exists |-> FALSE, layers |-> {}, points |-> <<>>],
             target |-> "missing", files |-> <<>>, tz |-> 0]
    /\ offset = 0 /\ pattern = "" /\ images = <<>> /\ coords = <<>> /\ error = ""
    /\ trace = [original |-> <<>>, candidates |-> <<>>, statted |-> FALSE,
                gpxOpened |-> FALSE, loaded |-> {}, written |-> {}, failed |-> ""]

\* the images path: a directory with a listing, one file, or nothing there
Targets == {<<"dir", l>> : l \in Listings(MaxImages)}
           \cup {<<"file", l>> : l \in Listings(1) \ {<<>>}}
           \cup {<<"missing", <<>>>>}

Init ==
    /\ IdleMatch
    /\ IdleDms
    /\ pc = "args"
    /\ \E e \in ExtVals, o \in OffsetArgs :
           args = [ext |-> e, hours |-> o[1], minutes |-> o[2], seconds |-> o[3]]
    /\ \E g \in GpxFiles, t \in Targets, z \in TzVals :
           /\ fs = [gpx |-> g, target |-> t[1], files |-> t[2], tz |-> z]
           /\ trace = [original |-> t[2], candidates |-> <<>>, statted |-> FALSE,
                       gpxOpened |-> FALSE, loaded |-> {}, written |-> {}, failed |-> ""]
    /\ offset = 0 /\ pattern = "" /\ images = <<>> /\ coords = <<>> /\ error = ""

Next == ParseArgs \/ GetPattern \/ ResolveImages \/ ParseGpx \/ ProcessImage \/ Finish

Spec == Init /\ [][Next]_vars

(***************************************************************************)
(* SpecMatch and SpecDms                                                   *)
(***************************************************************************)
\* one call nearest_gpx_point(times, q)
Query ==
    /\ Len(log) < MaxCalls
    /\ \E q \in QueryVals : CachedCall(times, q)
    /\ UNCHANGED <<times, dmsVars, mainVars>>

InitMatch ==
    /\ times \in Series(MaxN)
    /\ cache = EmptyCache /\ searches = 0 /\ log = <<>>
    /\ IdleDms
    /\ IdleMain

SpecMatch == InitMatch /\ [][Query]_vars

\* one call to_degrees_minutes_seconds(dec, lon)
Convert ==
    /\ dms = NotCalled
    /\ dms' = to_degrees_minutes_seconds(dec, lon)
    /\ UNCHANGED <<dec, lon, matchVars, mainVars>>

InitDms ==
    /\ dec \in Angles
    /\ lon \in BOOLEAN
    /\ InRange(dec, lon)
    /\ dms = NotCalled
    /\ IdleMatch
    /\ IdleMain

SpecDms == InitDms /\ [][Convert]_vars

(***************************************************************************)
(* Properties of nearest_gpx_point, over the calls recorded in log         *)
(* (SpecMatch).                                                            *)
(***************************************************************************)
Dist(a, b) == IF a >= b THEN a - b ELSE b - a

\* timestamps[0] <= q <= timestamps[N-1], N >= 1
Within(e) == /\ Len(e.ts) >= 1
             /\ e.ts[1] <= e.photo_time
             /\ e.photo_time <= e.ts[Len(e.ts)]

\* the call returned an index of the series that no other index beats
Nearest(e) ==
    /\ ~e.outcome.raised
    /\ e.outcome.value \in 0..(Len(e.ts) - 1)
    /\ \A j \in 0..(Len(e.ts) - 1) :
           Dist(At(e.ts, e.outcome.value), e.photo_time) <= Dist(At(e.ts, j), e.photo_time)

\* the scenario of the specification: [100,200,300], 140 -> 0, 150 -> 1, 260 -> 2
Scenario(e) ==
    e.ts = <<100, 200, 300>> =>
        /\ e.photo_time = 140 => e.outcome = Return(0)
        /\ e.photo_time = 150 => e.outcome = Return(1)
        /\ e.photo_time = 260 => e.outcome = Return(2)

\* C1 as stated: for every ascending series of length N >= 1 and every query
\* within [timestamps[0], timestamps[N-1]] the call returns an index in 0..N-1 that
\* no index beats in |timestamps[j] - q|, and a query at the midpoint of ANY two
\* adjacent timestamps returns the later of the two indices.
C1_AsStated ==
    \A k \in 1..Len(log) :
        LET e == log[k]
        IN  Within(e) =>
                /\ Nearest(e)
                /\ Scenario(e)
                /\ \A j \in 1..(Len(e.ts) - 1) :
                       2 * e.photo_time = At(e.ts, j - 1) + At(e.ts, j)
                           => e.outcome.value = j

\* C1 amended: the same, with the later index promised only at the midpoint of two
\* adjacent timestamps that differ (between two equal timestamps the query equals
\* both, and the exact-match branch returns the insertion point instead).
C1_NearestTieLater ==
    \A k \in 1..Len(log) :
        LET e == log[k]
        IN  Within(e) =>
                /\ Nearest(e)
                /\ Scenario(e)
                /\ \A j \in 1..(Len(e.ts) - 1) :
                       /\ 2 * e.photo_time = At(e.ts, j - 1) + At(e.ts, j)
                       /\ At(e.ts, j - 1) < At(e.ts, j)
                       => e.outcome.value = j

\* C1's case: a query at the midpoint of 100 and 200 in [100,200,300] returned 1
C1_Witness ==
    \E k \in 1..Len(log) :
        /\ log[k].ts = <<100, 200, 300>>
        /\ log[k].photo_time = 150
        /\ log[k].outcome = Return(1)

\* C2 as stated: for a series of length N >= 1 a query below timestamps[0] returns
\* index 0 and a query above timestamps[N-1] returns index N-1; neither fails nor
\* leaves 0..N-1.
C2_OutOfRangeClamps ==
    \A k \in 1..Len(log) :
        LET e == log[k]
            n == Len(e.ts)
        IN  n >= 1 =>
                /\ e.photo_time < e.ts[1] => e.outcome = Return(0)
                /\ e.photo_time > e.ts[n] => e.outcome = Return(n - 1)

C3_NoZeroDivision ==
    dms # NotCalled =>
        /\ ~dms.raised
        /\ (dec = Angle(1, 1, 0) /\ ~lon) => dms = Return(<<1, 0, 0, "N">>)

\* dec minus the angle rebuilt from (degrees, minutes, seconds_scaled), in steps of
\* 1 / SecUnit arc-second (the magnitudes; the sign is checked apart)
RoundTripError(d, t) ==
    (d.whole - t[1]) * FracScale + d.frac - t[2] * 60 * SecUnit - t[3] * SubUnits

SignOf(ref) == IF ref \in {"W", "S"} THEN -1 ELSE 1

\* C6 as stated: for every value in range the returned tuple has minutes in 0..59,
\* seconds_scaled >= 0, and degrees + minutes/60 + (seconds_scaled/PRECISION)/3600
\* with the hemisphere's sign reproduces the value to within 1/PRECISION arc-second.
C6_RoundTrip ==
    dms # NotCalled =>
        /\ ~dms.raised
        /\ dms.value[2] \in 0..59
        /\ dms.value[3] >= 0
        /\ Lt0(dec) => SignOf(dms.value[4]) = -1
        /\ Dist(RoundTripError(dec, dms.value), 0) <= SubUnits

\* C7 as stated: for every input the call labels the hemisphere: negative longitude
\* W, negative latitude S, non-negative longitude E, non-negative latitude N; zero
\* is the positive hemisphere.
C7_Hemisphere ==
    dms # NotCalled =>
        /\ ~dms.raised
        /\ dms.value[4] = IF Lt0(dec) THEN (IF lon THEN "W" ELSE "S")
                          ELSE (IF lon THEN "E" ELSE "N")

(***************************************************************************)
(* Properties of main (Spec).                                              *)
(***************************************************************************)
Range(f) == {f[i] : i \in DOMAIN f}

\* the track log was parsed and gave no sample (file absent, no track_points layer,
\* or an empty layer)
EmptySeries == trace.gpxOpened /\ times = <<>>

\* C4 as stated: with an empty series the driver skips every image without crashing:
\* the failed match does not end main, the loop runs to its end over every
\* candidate, and no image's metadata changes.
C4_EmptySeriesSkipsAll ==
    EmptySeries =>
        /\ trace.failed # "match"
        /\ trace.written = {}
        /\ fs.files = trace.original
        /\ pc = "done" => trace.loaded = Range(trace.candidates)

\* C5 as stated: a failure while processing one image (read, capture time, match,
\* encoding, write) skips that image only: main is never ended by it, and when main
\* has ended every image of the candidate set has been processed.
C5_PerImageIsolation ==
    /\ trace.failed = ""
    /\ (pc \in {"done", "crashed"} /\ trace.statted)
           => trace.loaded = Range(trace.candidates)

\* C8: in every step, an image that the step processes successfully gets exactly
\* the newly built record as its GPS block (the six keys of build_gps_dict for the
\* matched sample, no key of the prior block besides), its other metadata blocks
\* and file attributes stay, and every other image file and the track log stay.
C8_GpsBlockReplaced ==
    [][ /\ fs'.gpx = fs.gpx
        /\ Len(fs'.files) = Len(fs.files)
        /\ \A im \in 1..Len(fs.files) :
               IF im \in trace'.written \ trace.written
               THEN LET old   == fs.files[im]
                        new   == fs'.files[im]
                        index == log'[Len(log')].outcome.value
                    IN  /\ new.exif.GPS = Encode(coords, index).value
                        /\ DOMAIN new.exif.GPS = GpsKeys
                        /\ \A key \in DOMAIN old.exif.GPS \ GpsKeys :
                               key \notin DOMAIN new.exif.GPS
                        /\ [new EXCEPT !.exif.GPS = old.exif.GPS] = old
               ELSE fs'.files[im] = fs.files[im]
      ]_vars

\* C8's case: main ended after tagging an image whose prior GPS block had a key the
\* new record lacks, beside an image it left alone
C8_Witness ==
    /\ pc = "done"
    /\ \E im \in trace.written :
           /\ "GPSTimeStamp" \in DOMAIN trace.original[im].exif.GPS
           /\ "GPSTimeStamp" \notin DOMAIN fs.files[im].exif.GPS
           /\ fs.files[im].exif.zeroth = trace.original[im].exif.zeroth
    /\ \E im \in 1..Len(fs.files) :
           /\ im \notin trace.written
           /\ fs.files[im] = trace.original[im]

Supported == {"jpg", "jpeg", "webp", "tif", "tiff"}

\* C9: when the requested format is not a supported one, main stops in get_pattern
\* with ValueError and by then has not looked at the images path, not opened the
\* track log, and not read or written any image.
C9_UnsupportedFailsFast ==
    Lower(args.ext) \notin Supported =>
        /\ pc \in {"args", "pattern", "crashed"}
        /\ pc = "crashed" => error = "ValueError"
        /\ ~trace.statted
        /\ ~trace.gpxOpened
        /\ trace.loaded = {} /\ trace.written = {}
        /\ images = <<>> /\ times = <<>> /\ coords = <<>>
        /\ fs.files = trace.original

\* C9's case: main has stopped on an unsupported format, with image files present
C9_Witness ==
    /\ Lower(args.ext) \notin Supported
    /\ pc = "crashed"
    /\ error = "ValueError"
    /\ fs.files # <<>>
    /\ fs.gpx.exists

====
